---- MODULE Spec2Model ----
(***************************************************************************)
(* Model of the chk bot: the UserState durable object                      *)
(* (src/src/do/UserState.ts) and the webhook handler (src/src/index.ts).   *)
(*                                                                         *)
(* Time is in milliseconds, as returned by Date.now().  An absent value    *)
(* (null, a missing storage key) is the empty sequence <<>> and a present  *)
(* value v is <<v>>.  The "elapsed" field of the progress snapshots is a   *)
(* formatted floating point number and is not modelled.                    *)
(***************************************************************************)
EXTENDS Integers, Sequences, FiniteSets, TLC

VARIABLES
  clock,      \* Date.now()
  rateLimit,  \* UserState.rateLimit
  checking,   \* UserState.checking (<<>> is null)
  storage,    \* this.state.storage: the keys "rateLimit" and "checking"
  resp,       \* the last Response of UserState.fetch, and the keys it wrote
  kv,         \* env.RATE_KV: for each user the list stored under rate:<userId>
  req,        \* the webhook requests in flight: position and local variables
  served,     \* number of webhook requests received so far
  passed,     \* for each user the timestamps of the rate-limited commands let through
  chk,        \* the /chk branch: position, lines, i, the four counters, results
  sent,       \* the messages sent and edited through the Telegram API
  calls,      \* the requests made to the gateway: the card and the reply it got
  probe,      \* one call of checkCard: the card and the replies of the two services
  verdict,    \* the value that call of checkCard returned (<<>> before it returns)
  gen,        \* the /gen branch: position, the two arguments, bin, amount, cards
  luhn,       \* one call of luhnGenerate: prefix, length and the number returned
  alone,      \* for each user the window an object serving that user only would hold
  asked       \* the last rate_check: its userId, its answer and the answer of that object

actorVars == <<rateLimit, checking, storage, resp>>

kvVars == <<kv, req, served, passed>>

chkVars == <<chk, sent, calls>>

clsVars == <<probe, verdict>>

genVars == <<gen, luhn>>

isoVars == <<alone, asked>>

vars == <<clock, actorVars, kvVars, chkVars, clsVars, genVars, isoVars>>

-----------------------------------------------------------------------------
(* Bounds of the model *)

MaxClock == 90000
MaxResults == 2
MaxIndex == 1
MaxRequests == 4
MaxLines == 4
MaxPrefix == 2
MaxLen == 4

Ticks == {29999, 30000}
CardLists == {<<"c1">>, <<"c1", "c2">>}
MessageIds == {7}
Statuses == {"live", "die", "unknown", "error", "bogus"}
ResultTexts == {"ra", "rb"}
Users == {"u1", "u2"}
Reqs == {"r1", "r2"}
Cmds == {"/chk", "/start"}
LineSamples ==
  {"4111111111111111|02|28|144", "  5154620020062707|02|2028|1444 ",
   "4111111111111111|02|28|14"}
GenBins ==
  {"400000", "499999", "399999", "500000", "222100", "222099", "272099",
   "272100", "601199", "601200", "352800", "306000", "999999", "000000",
   "515462", "5154-6299", "4111", "bin"}
GenAmounts == {"3", "10", "50", "51", "60000", "0", "-5", "many"}
GenArgs ==
  {<<>>, <<"515462">>}
    \cup {<<b, a>> : b \in GenBins, a \in GenAmounts}
    \cup {<<"515462", "2", "extra">>}
RandomSources == {"lowest", "highest", "mixed"}
ChkTexts ==
  {<<"/chk">> \o body :
     body \in UNION {[1..n -> LineSamples] : n \in 0..MaxLines}}

-----------------------------------------------------------------------------
(* Program constants *)

WINDOW_MS == 60000
QUOTA == 3

\* the most cards one /gen message produces, and the number it produces
\* when the count is missing or zero
GEN_CAP == 50
DEFAULT_AMOUNT == 10

\* the length of a generated card number
CARD_LENGTH == 16

\* the number of cards one /chk message can hold
MAX_CARDS == 30

\* the commands the webhook handler never rejects for rate
Exempt == {"/start", "/help", "/bin"}

-----------------------------------------------------------------------------
(* Helpers *)

\* recent = this.rateLimit.filter(t => now - t < 60_000)
RECURSIVE Recent(_, _)
Recent(window, now) ==
  IF window = <<>> THEN <<>>
  ELSE IF now - Head(window) < WINDOW_MS
       THEN <<Head(window)>> \o Recent(Tail(window), now)
       ELSE Recent(Tail(window), now)

TextResponse(op, text, written) ==
  [op |-> op, kind |-> "text", body |-> [text |-> text], written |-> written]

JsonResponse(op, obj, written) ==
  [op |-> op, kind |-> "json", body |-> obj, written |-> written]

\* the snapshot object of handleUpdateProgress and handleGetProgress
Snapshot(c, num) ==
  [progress |-> <<num, Len(c.cards)>>,
   live |-> c.live, die |-> c.die, unknown |-> c.unknown, error |-> c.error]

-----------------------------------------------------------------------------
(* The UserState durable object *)

ActorInit ==
  /\ clock = 0
  /\ rateLimit = <<>>
  /\ checking = <<>>
  /\ storage = [rateLimit |-> <<>>, checking |-> <<>>]
  /\ resp = TextResponse("new", "", {})

\* Date.now() advances between requests
Tick ==
  /\ \E d \in Ticks :
       /\ clock + d <= MaxClock
       /\ clock' = clock + d
  /\ UNCHANGED <<actorVars, kvVars, chkVars, clsVars, genVars, isoVars>>

\* a faulty variant: a rejected call records now all the same
RateCheckResult_M(window, now) ==
  LET recent == Recent(window, now) IN
  IF Len(recent) >= QUOTA
  THEN [allowed |-> FALSE, window |-> Append(recent, now), put |-> TRUE]
  ELSE [allowed |-> TRUE, window |-> Append(recent, now), put |-> TRUE]

\* a faulty variant: the window is tested without being pruned
RateCheckResult_Stale(window, now) ==
  IF Len(window) >= QUOTA
  THEN [allowed |-> FALSE, window |-> window, put |-> FALSE]
  ELSE [allowed |-> TRUE, window |-> Append(Recent(window, now), now),
        put |-> TRUE]

\* the result of handleRateCheck: the new window and the answer
RateCheckResult(window, now) ==
  LET recent == Recent(window, now) IN
  IF Len(recent) >= QUOTA
  THEN [allowed |-> FALSE, window |-> window, put |-> FALSE]
  ELSE [allowed |-> TRUE, window |-> Append(recent, now), put |-> TRUE]

HandleRateCheck ==
  LET r == RateCheckResult(rateLimit, clock) IN
  /\ rateLimit' = r.window
  /\ storage' = IF r.put THEN [storage EXCEPT !.rateLimit = <<r.window>>]
                ELSE storage
  /\ resp' = JsonResponse("rate_check", [allowed |-> r.allowed],
                          IF r.put THEN {"rateLimit"} ELSE {})
  /\ UNCHANGED <<clock, checking, kvVars, chkVars, clsVars, genVars, isoVars>>

\* fetch passes data.userId to handleRateCheck, which does not use it: the
\* call acts on the one window of the object.  alone[userId] follows what
\* the same call does on an object that serves this user only.
RateCheckBy(userId) ==
  LET r == RateCheckResult(rateLimit, clock)
      a == RateCheckResult(alone[userId], clock) IN
  /\ rateLimit' = r.window
  /\ storage' = IF r.put THEN [storage EXCEPT !.rateLimit = <<r.window>>]
                ELSE storage
  /\ resp' = JsonResponse("rate_check", [allowed |-> r.allowed],
                          IF r.put THEN {"rateLimit"} ELSE {})
  /\ alone' = [alone EXCEPT ![userId] = a.window]
  /\ asked' = <<[userId |-> userId, allowed |-> r.allowed,
                 alone |-> a.allowed]>>
  /\ UNCHANGED <<clock, checking, kvVars, chkVars, clsVars, genVars>>

\* a faulty variant: counters and results of the session in place are kept
NewSession_M(cards, messageId, now) ==
  IF checking = <<>>
  THEN [cards |-> cards, live |-> 0, die |-> 0, unknown |-> 0, error |-> 0,
        startTime |-> now, messageId |-> messageId, results |-> <<>>]
  ELSE [checking[1] EXCEPT !.cards = cards, !.startTime = now,
                           !.messageId = messageId]

\* the session handleStartCheck installs
NewSession(cards, messageId, now) ==
  [cards |-> cards, live |-> 0, die |-> 0, unknown |-> 0, error |-> 0,
   startTime |-> now, messageId |-> messageId, results |-> <<>>]

\* a faulty variant: starting a session also clears the rate window
HandleStartCheck_M ==
  \E cards \in CardLists, messageId \in MessageIds :
    /\ checking' = <<NewSession(cards, messageId, clock)>>
    /\ rateLimit' = <<>>
    /\ storage' = [storage EXCEPT !.checking = checking',
                                  !.rateLimit = <<>>]
    /\ resp' = TextResponse("start_check", "OK", {"checking"})
    /\ UNCHANGED <<clock, kvVars, chkVars, clsVars, genVars, isoVars>>

HandleStartCheck ==
  \E cards \in CardLists, messageId \in MessageIds :
    /\ checking' = <<NewSession(cards, messageId, clock)>>
    /\ storage' = [storage EXCEPT !.checking = checking']
    /\ resp' = TextResponse("start_check", "OK", {"checking"})
    /\ UNCHANGED <<clock, rateLimit, kvVars, chkVars, clsVars, genVars, isoVars>>

\* the counter handleUpdateProgress increments for a status
CounterOf(status) ==
  IF status = "live" THEN "live"
  ELSE IF status = "die" THEN "die"
  ELSE IF status = "unknown" THEN "unknown"
  ELSE "error"

\* a faulty variant: the result is pushed twice
Progressed_Twice(c, status, result) ==
  [c EXCEPT ![CounterOf(status)] = @ + 1,
            !.results = Append(Append(@, result), result)]

\* a faulty variant: the result is pushed, the counter is left alone
Progressed_M(c, status, result) ==
  [c EXCEPT !.results = Append(@, result)]

\* the session after handleUpdateProgress
Progressed(c, status, result) ==
  LET k == CounterOf(status) IN
  [c EXCEPT ![k] = @ + 1, !.results = Append(@, result)]

\* a faulty variant: a session is created when none exists
HandleUpdateProgress_M ==
  \E index \in 0..MaxIndex, status \in Statuses, result \in ResultTexts :
    LET c == IF checking = <<>> THEN NewSession(<<>>, 0, clock)
             ELSE checking[1] IN
    /\ Len(c.results) < MaxResults
    /\ checking' = <<Progressed(c, status, result)>>
    /\ storage' = [storage EXCEPT !.checking = checking']
    /\ resp' = JsonResponse("update_progress",
                            Snapshot(checking'[1], index + 1), {"checking"})
    /\ UNCHANGED <<clock, rateLimit, kvVars, chkVars, clsVars, genVars, isoVars>>

HandleUpdateProgress ==
  \E index \in 0..MaxIndex, status \in Statuses, result \in ResultTexts :
    IF checking = <<>>
    THEN /\ resp' = TextResponse("update_progress", "No session", {})
         /\ UNCHANGED <<clock, rateLimit, checking, storage, kvVars, chkVars, clsVars, genVars, isoVars>>
    ELSE /\ Len(checking[1].results) < MaxResults
         /\ checking' = <<Progressed(checking[1], status, result)>>
         /\ storage' = [storage EXCEPT !.checking = checking']
         /\ resp' = JsonResponse("update_progress",
                                 Snapshot(checking'[1], index + 1),
                                 {"checking"})
         /\ UNCHANGED <<clock, rateLimit, kvVars, chkVars, clsVars, genVars, isoVars>>

\* a faulty variant: the numerator is the number of items, as if all were checked
HandleGetProgress_M ==
  /\ resp' = IF checking = <<>>
             THEN JsonResponse("get_progress", <<>>, {})
             ELSE JsonResponse("get_progress",
                               Snapshot(checking[1], Len(checking[1].cards)),
                               {})
  /\ UNCHANGED <<clock, rateLimit, checking, storage, kvVars, chkVars, clsVars, genVars, isoVars>>

HandleGetProgress ==
  /\ resp' = IF checking = <<>>
             THEN JsonResponse("get_progress", <<>>, {})
             ELSE JsonResponse("get_progress",
                               Snapshot(checking[1], Len(checking[1].results)),
                               {})
  /\ UNCHANGED <<clock, rateLimit, checking, storage, kvVars, chkVars, clsVars, genVars, isoVars>>

\* fetch: a request that is not a POST, or whose action is not one of the four
NotDispatched ==
  /\ \E text \in {"OK", "Invalid action"} :
       resp' = TextResponse("none", text, {})
  /\ UNCHANGED <<clock, rateLimit, checking, storage, kvVars, chkVars, clsVars, genVars, isoVars>>

\* the runtime evicts the object and constructs it again: the field
\* initialisers run, the constructor only keeps the storage handle
Restart ==
  /\ rateLimit' = <<>>
  /\ checking' = <<>>
  /\ resp' = TextResponse("new", "", {})
  /\ UNCHANGED <<clock, storage, kvVars, chkVars, clsVars, genVars, isoVars>>

\* a minute passes between two requests to the object
Later ==
  /\ clock + WINDOW_MS <= MaxClock
  /\ clock' = clock + WINDOW_MS
  /\ UNCHANGED <<actorVars, kvVars, chkVars, clsVars, genVars, isoVars>>

-----------------------------------------------------------------------------
(* The rate limit block of the webhook handler, over env.RATE_KV.  A       *)
(* request is suspended at "await RATE_KV.get" and at "await RATE_KV.put"; *)
(* the store serves each get and each put at one instant.  A key expires   *)
(* 120 s after its last put: by then every entry of its list is older than *)
(* 60 s and the filter drops it, so expiry is not modelled.                *)

IdleReq == [pc |-> "idle", userId |-> "", cmd |-> "", now |-> 0, valid |-> <<>>]

KvInit ==
  /\ kv = [u \in Users |-> <<>>]
  /\ req = [r \in Reqs |-> IdleReq]
  /\ served = 0
  /\ passed = [u \in Users |-> <<>>]

\* a message arrives: now = Date.now(), then RATE_KV.get is awaited
Receive(r) ==
  /\ req[r].pc = "idle"
  /\ served < MaxRequests
  /\ \E u \in Users, c \in Cmds :
       req' = [req EXCEPT ![r] =
                 [pc |-> "get", userId |-> u, cmd |-> c, now |-> clock,
                  valid |-> <<>>]]
  /\ served' = served + 1
  /\ UNCHANGED <<clock, actorVars, chkVars, clsVars, genVars, isoVars, kv, passed>>

\* the decision taken on the list read from the store
RateDecision(recent, now, cmd) ==
  LET valid == Recent(recent, now) IN
  IF Len(valid) >= QUOTA /\ cmd \notin Exempt
  THEN [pc |-> "limited", valid |-> valid]
  ELSE [pc |-> "put", valid |-> Append(valid, now)]

\* RATE_KV.get resolves; the request tests the list and either answers
\* "Rate limit" or pushes now and starts RATE_KV.put
KvGet(r) ==
  /\ req[r].pc = "get"
  /\ LET d == RateDecision(kv[req[r].userId], req[r].now, req[r].cmd) IN
       req' = [req EXCEPT ![r].pc = d.pc, ![r].valid = d.valid]
  /\ UNCHANGED <<clock, actorVars, chkVars, clsVars, genVars, isoVars, kv, served, passed>>

\* RATE_KV.put takes effect; the request goes on to its command
KvPut(r) ==
  /\ req[r].pc = "put"
  /\ kv' = [kv EXCEPT ![req[r].userId] = req[r].valid]
  /\ passed' = IF req[r].cmd \in Exempt THEN passed
               ELSE [passed EXCEPT ![req[r].userId] = Append(@, req[r].now)]
  /\ req' = [req EXCEPT ![r].pc = "passed"]
  /\ UNCHANGED <<clock, actorVars, chkVars, clsVars, genVars, isoVars, served>>

\* the handler returns its Response
Respond(r) ==
  /\ req[r].pc \in {"limited", "passed"}
  /\ req' = [req EXCEPT ![r] = IdleReq]
  /\ UNCHANGED <<clock, actorVars, chkVars, clsVars, genVars, isoVars, kv, served, passed>>

KvNext ==
  \/ Later
  \/ \E r \in Reqs : Receive(r)
  \/ \E r \in Reqs : KvGet(r)
  \/ \E r \in Reqs : KvPut(r)
  \/ \E r \in Reqs : Respond(r)

-----------------------------------------------------------------------------
(* Strings.  A string is a sequence of characters: Len, SubSeq and \o     *)
(* apply to it.                                                            *)

CharAt(s, i) == SubSeq(s, i, i)

UpperCase ==
  <<"A", "B", "C", "D", "E", "F", "G", "H", "I", "J", "K", "L", "M",
    "N", "O", "P", "Q", "R", "S", "T", "U", "V", "W", "X", "Y", "Z">>

LowerCase ==
  <<"a", "b", "c", "d", "e", "f", "g", "h", "i", "j", "k", "l", "m",
    "n", "o", "p", "q", "r", "s", "t", "u", "v", "w", "x", "y", "z">>

LowerChar(c) ==
  IF \E k \in 1..26 : UpperCase[k] = c
  THEN LowerCase[CHOOSE k \in 1..26 : UpperCase[k] = c]
  ELSE c

\* String.prototype.toLowerCase
RECURSIVE ToLowerCase(_)
ToLowerCase(s) ==
  IF s = "" THEN ""
  ELSE LowerChar(CharAt(s, 1)) \o ToLowerCase(SubSeq(s, 2, Len(s)))

\* String.prototype.includes
Includes(s, m) ==
  \E i \in 1..(Len(s) - Len(m) + 1) : SubSeq(s, i, i + Len(m) - 1) = m

\* position of the first occurrence of the character c in s, 0 if none
IndexOf(s, c) ==
  IF \E i \in 1..Len(s) : CharAt(s, i) = c
  THEN CHOOSE i \in 1..Len(s) :
         CharAt(s, i) = c /\ \A j \in 1..(i - 1) : CharAt(s, j) # c
  ELSE 0

\* String.prototype.split on a one-character separator
RECURSIVE Split(_, _)
Split(s, sep) ==
  LET k == IndexOf(s, sep) IN
  IF k = 0 THEN <<s>>
  ELSE <<SubSeq(s, 1, k - 1)>> \o Split(SubSeq(s, k + 1, Len(s)), sep)

\* String.prototype.trim (the only white space of the model is the blank)
RECURSIVE Trim(_)
Trim(s) ==
  IF s = "" THEN ""
  ELSE IF CharAt(s, 1) = " " THEN Trim(SubSeq(s, 2, Len(s)))
  ELSE IF CharAt(s, Len(s)) = " " THEN Trim(SubSeq(s, 1, Len(s) - 1))
  ELSE s

\* html.replace(/<[^>]*>/g, "")
RECURSIVE StripTags(_)
StripTags(s) ==
  IF s = "" THEN ""
  ELSE IF CharAt(s, 1) = "<" /\ IndexOf(s, ">") > 0
       THEN StripTags(SubSeq(s, IndexOf(s, ">") + 1, Len(s)))
       ELSE CharAt(s, 1) \o StripTags(SubSeq(s, 2, Len(s)))

\* a || b on strings
OrElse(a, b) == IF a # "" THEN a ELSE b

-----------------------------------------------------------------------------
(* checkCard and getBinInfo.  A reply of the gateway is                    *)
(*   net     whether fetch resolved (FALSE: it threw)                      *)
(*   status  the HTTP status                                               *)
(*   json    how the body parses: "invalid" (res.json() throws), "null",   *)
(*           "scalar" (a number, a string, an array) or "object"           *)
(*   msg, message   the two fields read from the object, each absent, a    *)
(*           string or a non-zero number                                   *)

Absent == [type |-> "absent", text |-> ""]
Str(t) == [type |-> "string", text |-> t]
Num == [type |-> "number", text |-> ""]

Reply(net, status, json, msg, message) ==
  [net |-> net, status |-> status, json |-> json, msg |-> msg,
   message |-> message]

NetworkError == Reply(FALSE, 0, "invalid", Absent, Absent)
HttpError(status) == Reply(TRUE, status, "invalid", Absent, Absent)
Malformed == Reply(TRUE, 200, "invalid", Absent, Absent)
JsonNull == Reply(TRUE, 200, "null", Absent, Absent)
JsonScalar == Reply(TRUE, 200, "scalar", Absent, Absent)
Json(msg, message) == Reply(TRUE, 200, "object", msg, message)

\* Response.ok
Ok(reply) == reply.status >= 200 /\ reply.status <= 299

\* the truthiness of a field value
Truthy(f) == f.type = "number" \/ (f.type = "string" /\ f.text # "")

\* json.msg || json.message || ""
HtmlOf(reply) ==
  IF reply.json # "object" THEN Str("")
  ELSE IF Truthy(reply.msg) THEN reply.msg
  ELSE IF Truthy(reply.message) THEN reply.message
  ELSE Str("")

\* getBinInfo: the lookup answers with metadata, answers with a status that
\* is not a success, or fails (fetch or res.json() throws, a field is missing)
GetBinInfo(bin, binReply) ==
  IF binReply = "found" THEN "BIN: " \o bin
  ELSE IF binReply = "refused" THEN "BIN lookup failed"
  ELSE "BIN lookup error"

Outcome(status, message, binInfo) ==
  [status |-> status, message |-> message, binInfo |-> binInfo]

\* a faulty variant: the die keywords are tested before the live keywords
Classify_M(html, binInfo) ==
  LET cleanMsg == Trim(StripTags(html))
      lowerHtml == ToLowerCase(html) IN
  IF Includes(lowerHtml, "die") \/ Includes(lowerHtml, "declined")
       \/ Includes(lowerHtml, "failed")
  THEN Outcome("die", OrElse(cleanMsg, "Declined"), binInfo)
  ELSE IF Includes(lowerHtml, "live") \/ Includes(lowerHtml, "approved")
            \/ Includes(lowerHtml, "success")
  THEN Outcome("live", OrElse(cleanMsg, "Approved"), binInfo)
  ELSE IF Includes(lowerHtml, "unknown") \/ Includes(lowerHtml, "pending")
  THEN Outcome("unknown", OrElse(cleanMsg, "Unknown"), binInfo)
  ELSE Outcome("error", OrElse(cleanMsg, "No response"), binInfo)

\* the keyword tests of checkCard on the text of the reply
Classify(html, binInfo) ==
  LET cleanMsg == Trim(StripTags(html))
      lowerHtml == ToLowerCase(html) IN
  IF Includes(lowerHtml, "live") \/ Includes(lowerHtml, "approved")
       \/ Includes(lowerHtml, "success")
  THEN Outcome("live", OrElse(cleanMsg, "Approved"), binInfo)
  ELSE IF Includes(lowerHtml, "die") \/ Includes(lowerHtml, "declined")
            \/ Includes(lowerHtml, "failed")
  THEN Outcome("die", OrElse(cleanMsg, "Declined"), binInfo)
  ELSE IF Includes(lowerHtml, "unknown") \/ Includes(lowerHtml, "pending")
  THEN Outcome("unknown", OrElse(cleanMsg, "Unknown"), binInfo)
  ELSE Outcome("error", OrElse(cleanMsg, "No response"), binInfo)

\* whether checkCard sends the card to the gateway: its four fields exist
WellFormed(card) ==
  LET parts == Split(card, "|") IN
  Len(parts) >= 4 /\ \A k \in 1..4 : parts[k] # ""

CheckCard(card, reply, binReply) ==
  IF ~WellFormed(card) THEN Outcome("error", "Invalid format", "")
  ELSE IF ~reply.net THEN Outcome("error", "fetch failed", "")
  ELSE IF ~Ok(reply)
  THEN Outcome("error", "Gateway error: " \o ToString(reply.status), "")
  ELSE IF reply.json = "invalid" THEN Outcome("error", "Unexpected token", "")
  ELSE IF reply.json = "null"
  THEN Outcome("error", "Cannot read properties of null", "")
  ELSE IF HtmlOf(reply).type = "number"
  THEN Outcome("error", "html.replace is not a function", "")
  ELSE Classify(HtmlOf(reply).text,
                GetBinInfo(SubSeq(Split(card, "|")[1], 1, 6), binReply))

(* One call of checkCard, as the /test command makes it *)

Words ==
  {"Live", "APPROVED", "Success", "die", "Declined", "FAILED", "Unknown",
   "pending", "ok", "<i class=live>x</i>"}

Texts == Words \cup {"", "<b></b>"} \cup {a \o " " \o b : a, b \in Words}

Replies ==
  {NetworkError, HttpError(404), HttpError(500), Malformed, JsonNull,
   JsonScalar, Json(Num, Absent), Json(Absent, Num)}
    \cup {Json(Str(t), Absent) : t \in Texts}
    \cup {Json(Str(t), Str("die")) : t \in {"", "Live", "ok"}}
    \cup {Json(Absent, Str(t)) : t \in Words}

BinReplies == {"found", "refused", "failed"}

\* what the two services answer for one item of a batch
ItemOutcomes ==
  {<<NetworkError, "failed">>, <<HttpError(500), "failed">>,
   <<Malformed, "failed">>, <<Json(Str("Live"), Absent), "found">>,
   <<Json(Str("Declined"), Absent), "refused">>,
   <<Json(Str("pending"), Absent), "failed">>,
   <<Json(Str("ok"), Absent), "found">>}

TestCards == {"4111111111111111|02|28|144", "4111111111111111|02|28"}

Probe(card, reply, binReply) ==
  [card |-> card, reply |-> reply, binReply |-> binReply]

NoProbe == Probe("", NetworkError, "failed")

ClsIdle ==
  /\ probe = NoProbe
  /\ verdict = <<>>

ClsInit ==
  /\ probe \in {Probe(c, r, b) : c \in TestCards, r \in Replies,
                                 b \in BinReplies}
  /\ verdict = <<>>

RunCheckCard ==
  /\ verdict = <<>>
  /\ verdict' = <<CheckCard(probe.card, probe.reply, probe.binReply)>>
  /\ UNCHANGED <<clock, actorVars, kvVars, chkVars, probe, genVars, isoVars>>

-----------------------------------------------------------------------------
(* The /chk branch of the webhook handler.  The text of the message is the *)
(* sequence of its lines (text.split("\n")); the first holds the command.  *)

Digits == {"0", "1", "2", "3", "4", "5", "6", "7", "8", "9"}

\* /^\d{lo,hi}$/
DigitRun(s, lo, hi) ==
  /\ Len(s) >= lo
  /\ Len(s) <= hi
  /\ \A k \in 1..Len(s) : CharAt(s, k) \in Digits

\* /^\d{15,19}\|\d{2}\|\d{2,4}\|\d{3,4}$/
MatchesCard(l) ==
  LET parts == Split(l, "|") IN
  /\ Len(parts) = 4
  /\ DigitRun(parts[1], 15, 19)
  /\ DigitRun(parts[2], 2, 2)
  /\ DigitRun(parts[3], 2, 4)
  /\ DigitRun(parts[4], 3, 4)

\* .map(l => l.trim()).filter(l => regex.test(l))
RECURSIVE CardLines(_)
CardLines(text) ==
  IF text = <<>> THEN <<>>
  ELSE IF MatchesCard(Trim(Head(text)))
       THEN <<Trim(Head(text))>> \o CardLines(Tail(text))
       ELSE CardLines(Tail(text))

\* .slice(0, n)
Slice(s, n) == SubSeq(s, 1, IF Len(s) < n THEN Len(s) ELSE n)

EscapeChar(c) ==
  IF c = "&" THEN "&amp;"
  ELSE IF c = "<" THEN "&lt;"
  ELSE IF c = ">" THEN "&gt;"
  ELSE c

\* escapeHtml
RECURSIVE EscapeHtml(_)
EscapeHtml(s) ==
  IF s = "" THEN ""
  ELSE EscapeChar(CharAt(s, 1)) \o EscapeHtml(SubSeq(s, 2, Len(s)))

\* the text pushed to results for one item
ResultOf(card, res) ==
  [statusText |-> IF res.status = "live" THEN "Approved"
                  ELSE IF res.status = "die" THEN "Declined"
                  ELSE IF res.status = "unknown" THEN "Unknown"
                  ELSE "Error",
   card |-> card,
   responseMsg |-> EscapeHtml(res.message),
   binInfo |-> res.binInfo]

\* a message of the bot: what it announces and the numbers it shows
Message(type, num, c) ==
  [type |-> type, progress |-> <<num, Len(c.lines)>>,
   live |-> c.live, die |-> c.die, unknown |-> c.unknown, error |-> c.error]

ChkIdle ==
  [pc |-> "idle", lines |-> <<>>, i |-> 0,
   live |-> 0, die |-> 0, unknown |-> 0, error |-> 0, results |-> <<>>]

ChkInit ==
  /\ chk = ChkIdle
  /\ sent = <<>>
  /\ calls = <<>>

\* the message arrives: the lines are filtered and the start message is sent
ChkStart ==
  /\ chk.pc = "idle"
  /\ \E text \in ChkTexts :
       LET lines == Slice(CardLines(text), MAX_CARDS)
           c == [ChkIdle EXCEPT !.lines = lines] IN
       IF Len(lines) = 0
       THEN /\ sent' = Append(sent, Message("usage", 0, c))
            /\ chk' = [c EXCEPT !.pc = "done"]
       ELSE /\ sent' = Append(sent, Message("started", 0, c))
            /\ chk' = [c EXCEPT !.pc = "loop"]
  /\ UNCHANGED <<clock, actorVars, kvVars, clsVars, genVars, isoVars, calls>>

\* a faulty variant: an item that ends in error stops the batch
AfterItem_M(c, res) ==
  IF res.status = "error" THEN [c EXCEPT !.i = Len(c.lines)]
  ELSE [c EXCEPT ![res.status] = @ + 1,
                 !.results = Append(@, ResultOf(c.lines[c.i + 1], res)),
                 !.i = @ + 1]

\* the counters, the results and i after the body of the loop for one item
AfterItem(c, res) ==
  LET k == IF res.status = "live" THEN "live"
           ELSE IF res.status = "die" THEN "die"
           ELSE IF res.status = "unknown" THEN "unknown"
           ELSE "error" IN
  [c EXCEPT ![k] = @ + 1,
            !.results = Append(@, ResultOf(c.lines[c.i + 1], res)),
            !.i = @ + 1]

\* a faulty variant: the last item gets no progress message of its own
ProgressDue_M(i, n) == i % 3 = 2

\* i % 3 === 2 || i === lines.length - 1, for the item just processed
ProgressDue(i, n) == i % 3 = 2 \/ i = n - 1

\* one pass of the loop: checkCard, the counters, the progress message
ChkItem ==
  /\ chk.pc = "loop"
  /\ chk.i < Len(chk.lines)
  /\ \E o \in ItemOutcomes :
       LET card == chk.lines[chk.i + 1]
           res == CheckCard(card, o[1], o[2])
           c == AfterItem(chk, res) IN
       /\ chk' = c
       /\ calls' = IF WellFormed(card)
                   THEN Append(calls, [card |-> card, reply |-> o[1]])
                   ELSE calls
       /\ sent' = IF ProgressDue(chk.i, Len(chk.lines))
                  THEN Append(sent, Message("progress", chk.i + 1, c))
                  ELSE sent
  /\ UNCHANGED <<clock, actorVars, kvVars, clsVars, genVars, isoVars>>

\* the loop is over: the completion message replaces the progress message
ChkFinish ==
  /\ chk.pc = "loop"
  /\ chk.i >= Len(chk.lines)
  /\ sent' = Append(sent, Message("completed", Len(chk.results), chk))
  /\ chk' = [chk EXCEPT !.pc = "done"]
  /\ UNCHANGED <<clock, actorVars, kvVars, clsVars, genVars, isoVars, calls>>

\* checkCard awaits fetch for the gateway, then for the BIN lookup, with no
\* AbortSignal and no timer: when a service never answers, the await never
\* resumes and the loop stays at this item
CallNeverAnswers ==
  /\ chk.pc = "loop"
  /\ chk.i < Len(chk.lines)
  /\ chk' = [chk EXCEPT !.pc = "awaiting"]
  /\ UNCHANGED <<clock, actorVars, kvVars, clsVars, genVars, isoVars, sent,
                 calls>>

ChkNext ==
  \/ ChkStart
  \/ ChkItem
  \/ ChkFinish

-----------------------------------------------------------------------------
(* luhnGenerate, isValidBin and generateCards.  The strings these          *)
(* functions receive hold decimal digits only, with an optional sign for   *)
(* parseInt.  The values of Math.random() are an argument of the operators.*)

\* the value of a decimal digit character
DigitValue(c) == CHOOSE d \in 0..9 : ToString(d) = c

\* the longest prefix of s made of digits
RECURSIVE LeadingDigits(_)
LeadingDigits(s) ==
  IF s = "" \/ CharAt(s, 1) \notin Digits THEN ""
  ELSE CharAt(s, 1) \o LeadingDigits(SubSeq(s, 2, Len(s)))

\* the number a string of digits denotes
RECURSIVE Decimal(_)
Decimal(s) ==
  IF s = "" THEN 0
  ELSE 10 * Decimal(SubSeq(s, 1, Len(s) - 1)) + DigitValue(CharAt(s, Len(s)))

\* parseInt: NaN, or the integer the string starts with
ParseInt(s) ==
  LET signed == s # "" /\ CharAt(s, 1) \in {"-", "+"}
      digits == LeadingDigits(IF signed THEN SubSeq(s, 2, Len(s)) ELSE s)
  IN IF digits = "" THEN [nan |-> TRUE, value |-> 0]
     ELSE [nan |-> FALSE,
           value |-> IF signed /\ CharAt(s, 1) = "-" THEN 0 - Decimal(digits)
                     ELSE Decimal(digits)]

\* s.replace(/\D/g, "")
RECURSIVE OnlyDigits(_)
OnlyDigits(s) ==
  IF s = "" THEN ""
  ELSE IF CharAt(s, 1) \in Digits
       THEN CharAt(s, 1) \o OnlyDigits(SubSeq(s, 2, Len(s)))
       ELSE OnlyDigits(SubSeq(s, 2, Len(s)))

\* String.prototype.padEnd and padStart with a one-character filler
RECURSIVE PadEnd(_, _, _)
PadEnd(s, n, c) == IF Len(s) >= n THEN s ELSE PadEnd(s \o c, n, c)

RECURSIVE PadStart(_, _, _)
PadStart(s, n, c) == IF Len(s) >= n THEN s ELSE PadStart(c \o s, n, c)

Range(network, start, end) ==
  [network |-> network, start |-> start, end |-> end]

BIN_RANGES ==
  <<Range("visa", 400000, 499999),
    Range("mastercard", 222100, 272099),
    Range("mastercard", 510000, 559999),
    Range("amex", 340000, 349999),
    Range("amex", 370000, 379999),
    Range("discover", 601100, 601199),
    Range("discover", 644000, 659999),
    Range("jcb", 352800, 358999),
    Range("diners", 300000, 305999),
    Range("diners", 360000, 369999),
    Range("diners", 380000, 399999),
    Range("cup", 620000, 629999)>>

\* a faulty variant: the end of a range is excluded
IsValidBin_M(bin) ==
  LET binNum == ParseInt(bin) IN
  /\ ~binNum.nan
  /\ \E k \in 1..Len(BIN_RANGES) :
       binNum.value >= BIN_RANGES[k].start /\ binNum.value < BIN_RANGES[k].end

IsValidBin(bin) ==
  LET binNum == ParseInt(bin) IN
  /\ ~binNum.nan
  /\ \E k \in 1..Len(BIN_RANGES) :
       binNum.value >= BIN_RANGES[k].start /\ binNum.value <= BIN_RANGES[k].end

\* the loop of luhnGenerate over number[i], i from the right down to 0
RECURSIVE LuhnSum(_, _, _)
LuhnSum(number, i, alternate) ==
  IF i = 0 THEN 0
  ELSE LET digit == DigitValue(CharAt(number, i))
           doubled == IF 2 * digit > 9 THEN 2 * digit - 9 ELSE 2 * digit
       IN (IF alternate THEN doubled ELSE digit)
            + LuhnSum(number, i - 1, ~alternate)

\* a faulty variant: the doubling starts one digit too far to the left
CheckDigit_M(number) ==
  (10 - (LuhnSum(number, Len(number), FALSE) % 10)) % 10

\* the check digit luhnGenerate appends to number
CheckDigit(number) ==
  (10 - (LuhnSum(number, Len(number), TRUE) % 10)) % 10

\* luhnGenerate; random holds the digits Math.random() yields, in order
LuhnGenerate(prefix, length, random) ==
  LET missing == length - 1 - Len(prefix)
      number == IF missing > 0 THEN prefix \o SubSeq(random, 1, missing)
                ELSE prefix
  IN number \o ToString(CheckDigit(number))

\* the month, the year and the code Math.random() yields for the i-th card
Draw(rnd, i) ==
  IF rnd = "lowest" THEN [mm |-> 1, yy |-> 26, cvv |-> 100]
  ELSE IF rnd = "highest" THEN [mm |-> 12, yy |-> 33, cvv |-> 999]
  ELSE IF i % 2 = 1 THEN [mm |-> 1, yy |-> 33, cvv |-> 100]
  ELSE [mm |-> 12, yy |-> 26, cvv |-> 999]

\* the digits Math.random() yields inside luhnGenerate for the i-th card
RandomDigits(rnd, i) ==
  IF rnd = "lowest" THEN "000000000000000"
  ELSE IF rnd = "highest" THEN "999999999999999"
  ELSE IF i % 2 = 1 THEN "314159265358979"
  ELSE "271828182845904"

\* a faulty variant: the prefix is not padded, luhnGenerate fills it up
CardOf_M(bin, rnd, i) ==
  LET cc == LuhnGenerate(bin, CARD_LENGTH, RandomDigits(rnd, i))
      d == Draw(rnd, i)
  IN cc \o "|" \o PadStart(ToString(d.mm), 2, "0")
        \o "|" \o PadStart(ToString(d.yy), 2, "0")
        \o "|" \o ToString(d.cvv)

\* the i-th record of generateCards
CardOf(bin, rnd, i) ==
  LET prefix == Slice(PadEnd(bin, CARD_LENGTH - 1, "0"), CARD_LENGTH - 1)
      cc == LuhnGenerate(prefix, CARD_LENGTH, RandomDigits(rnd, i))
      d == Draw(rnd, i)
  IN cc \o "|" \o PadStart(ToString(d.mm), 2, "0")
        \o "|" \o PadStart(ToString(d.yy), 2, "0")
        \o "|" \o ToString(d.cvv)

GenerateCards(bin, amount, rnd) ==
  IF ~IsValidBin(bin) THEN <<>>
  ELSE [i \in 1..amount |-> CardOf(bin, rnd, i)]

(* The /gen branch of the webhook handler; args are the words after /gen *)

GenMessage(type, amount, bin, cards) ==
  [type |-> type, amount |-> amount, bin |-> bin, cards |-> cards]

GenIdle ==
  [pc |-> "idle", args |-> <<>>, bin |-> "", amount |-> 0, cards |-> <<>>]

\* Math.min(parseInt(args[1]) || 10, 50)
AmountOf(arg) ==
  LET n == ParseInt(arg)
      wanted == IF n.nan \/ n.value = 0 THEN DEFAULT_AMOUNT ELSE n.value
  IN IF wanted < GEN_CAP THEN wanted ELSE GEN_CAP

\* what the handler does with "/gen args": the cards and the message
GenOutcome(args, rnd) ==
  IF Len(args) < 2
  THEN [bin |-> "", amount |-> 0, cards |-> <<>>, type |-> "unknown_command"]
  ELSE LET bin == Slice(OnlyDigits(args[1]), 6)
           amount == AmountOf(args[2])
           cards == GenerateCards(bin, amount, rnd)
       IN IF Len(bin) < 6
          THEN [bin |-> bin, amount |-> amount, cards |-> <<>>,
                type |-> "bin_too_short"]
          ELSE IF ~IsValidBin(bin)
          THEN [bin |-> bin, amount |-> amount, cards |-> <<>>,
                type |-> "bin_not_in_range"]
          ELSE IF Len(cards) = 0
          THEN [bin |-> bin, amount |-> amount, cards |-> cards,
                type |-> "failed"]
          ELSE [bin |-> bin, amount |-> amount, cards |-> cards,
                type |-> "generated"]

GenCommand ==
  /\ gen.pc = "idle"
  /\ \E args \in GenArgs, rnd \in RandomSources :
       LET o == GenOutcome(args, rnd) IN
       /\ gen' = [pc |-> "done", args |-> args, bin |-> o.bin,
                  amount |-> o.amount, cards |-> o.cards]
       /\ sent' = Append(sent, GenMessage(o.type, o.amount, o.bin, o.cards))
  /\ UNCHANGED <<clock, actorVars, kvVars, clsVars, isoVars, chk, calls, luhn>>

(* One call of luhnGenerate *)

RECURSIVE DigitStrings(_)
DigitStrings(n) ==
  IF n <= 0 THEN {""}
  ELSE {s \o c : s \in DigitStrings(n - 1), c \in Digits}

LuhnCall(prefix, length) ==
  [prefix |-> prefix, length |-> length, number |-> ""]

LuhnIdle == LuhnCall("", 0)

GenInit ==
  /\ gen = GenIdle
  /\ luhn = LuhnIdle

\* the calls generateCards makes, and calls with short prefixes
LuhnInit ==
  /\ gen = GenIdle
  /\ luhn \in
       {LuhnCall(PadEnd(bin, CARD_LENGTH - 1, "0"), CARD_LENGTH) :
          bin \in {"400000", "515462", "629999"}}
       \cup {LuhnCall(p, l) :
               p \in UNION {DigitStrings(n) : n \in 0..MaxPrefix},
               l \in 1..MaxLen}

RunLuhnGenerate ==
  /\ luhn.number = ""
  /\ luhn.length > 0
  /\ \E random \in DigitStrings(luhn.length - 1 - Len(luhn.prefix)) :
       luhn' = [luhn EXCEPT
                  !.number = LuhnGenerate(luhn.prefix, luhn.length, random)]
  /\ UNCHANGED <<clock, actorVars, kvVars, chkVars, clsVars, isoVars, gen>>

-----------------------------------------------------------------------------
(* Specifications *)

IsoInit ==
  /\ alone = [u \in Users |-> <<>>]
  /\ asked = <<>>

Init == ActorInit /\ KvInit /\ ChkInit /\ ClsIdle /\ GenInit /\ IsoInit

\* the durable object under all its operations, a minute between requests
Next ==
  \/ Later
  \/ HandleRateCheck
  \/ HandleStartCheck
  \/ HandleUpdateProgress
  \/ HandleGetProgress
  \/ NotDispatched
  \/ Restart

Spec == Init /\ [][Next]_vars

\* the rate window of the durable object, with a fine clock
RateNext ==
  \/ Tick
  \/ HandleRateCheck
  \/ Restart

SpecRate == Init /\ [][RateNext]_vars

\* the rate limit block of the webhook handler under concurrent requests
SpecKV == Init /\ [][KvNext]_vars

\* one /chk message, whatever the gateway answers for each item
SpecChk == Init /\ [][ChkNext]_vars

\* one call of checkCard on any card and any pair of replies
ClassifyInit ==
  ActorInit /\ KvInit /\ ChkInit /\ ClsInit /\ GenInit /\ IsoInit

SpecClassify == ClassifyInit /\ [][RunCheckCard]_vars

\* one /chk message when a service may never answer; the runtime resumes
\* the handler whenever one of its awaits has settled
ChkLiveNext ==
  \/ ChkNext
  \/ CallNeverAnswers

\* weak fairness of ChkItem, with ENABLED ChkItem written as its guard
ItemFair ==
  \/ []<>(~(chk.pc = "loop" /\ chk.i < Len(chk.lines)))
  \/ []<><<ChkItem>>_vars

SpecChkLive ==
  /\ Init
  /\ [][ChkLiveNext]_vars
  /\ WF_vars(ChkStart)
  /\ ItemFair
  /\ WF_vars(ChkFinish)

\* one object that receives the rate checks of several users
SharedNext ==
  \/ Tick
  \/ \E userId \in Users : RateCheckBy(userId)

SpecShared == Init /\ [][SharedNext]_vars

\* one /gen message
SpecGen == Init /\ [][GenCommand]_vars

\* one call of luhnGenerate on any prefix, length and random digits
LuhnSpecInit ==
  ActorInit /\ KvInit /\ ChkInit /\ ClsIdle /\ LuhnInit /\ IsoInit

SpecLuhn == LuhnSpecInit /\ [][RunLuhnGenerate]_vars

-----------------------------------------------------------------------------
(* Properties of the durable object *)

Session == checking[1]

Checked(c) == c.live + c.die + c.unknown + c.error

\* the entries of the window younger than 60 s at the given time
Young(window, now) == SelectSeq(window, LAMBDA t : now - t < 60000)

\* C1: a rate_check made when 3 or more recorded timestamps are younger
\* than 60 s answers allowed=false and leaves the window and the storage as
\* they were; any other rate_check answers allowed=true and the window
\* becomes the young entries followed by now.
C1_RateCheck ==
  [][HandleRateCheck =>
       IF Len(Young(rateLimit, clock)) >= 3
       THEN /\ resp'.body = [allowed |-> FALSE]
            /\ rateLimit' = rateLimit
            /\ storage' = storage
       ELSE /\ resp'.body = [allowed |-> TRUE]
            /\ rateLimit' = Young(rateLimit, clock) \o <<clock>>]_vars

\* a call was rejected although the window holds an entry older than 60 s
C1_Witness ==
  /\ resp.op = "rate_check"
  /\ resp.body = [allowed |-> FALSE]
  /\ Len(rateLimit) = 3
  /\ clock - rateLimit[1] >= 30000

\* C4 (as claimed): re-constructing the object from its storage leaves the
\* rate window and the session as the last operation left them.
C4_Claim ==
  [][Restart => (rateLimit' = rateLimit /\ checking' = checking)]_vars

\* C5 (as claimed): start_check on an object with an active session answers
\* with an error and leaves the session unchanged.
C5_Claim ==
  [][(HandleStartCheck /\ checking # <<>>) =>
       (checking' = checking /\ resp'.body # [text |-> "OK"])]_vars

\* C6: every update_progress on an active session adds one to exactly one
\* of the four counters and one to the number of results; in every state the
\* four counters sum to the number of results, hence to the number of items
\* once there is one result per item.
C6_Counters ==
  /\ [](checking # <<>> =>
          /\ Checked(Session) = Len(Session.results)
          /\ (Len(Session.results) = Len(Session.cards)
                 => Checked(Session) = Len(Session.cards)))
  /\ [][(HandleUpdateProgress /\ checking # <<>>) =>
          /\ checking' # <<>>
          /\ Len(checking'[1].results) = Len(Session.results) + 1
          /\ Cardinality({k \in {"live", "die", "unknown", "error"} :
                            checking'[1][k] = Session[k] + 1}) = 1
          /\ Cardinality({k \in {"live", "die", "unknown", "error"} :
                            checking'[1][k] = Session[k]}) = 3]_vars

\* one update per item of a two-item session has been made
C6_Witness ==
  /\ checking # <<>>
  /\ resp.op = "update_progress"
  /\ Len(Session.cards) = 2
  /\ Len(Session.results) = 2

\* C7: update_progress on an object with no session answers "No session",
\* leaves the session absent and the rate window as it was, and writes
\* nothing to storage.
C7_NoSession ==
  [][(HandleUpdateProgress /\ checking = <<>>) =>
       /\ resp'.kind = "text"
       /\ resp'.body = [text |-> "No session"]
       /\ resp'.written = {}
       /\ checking' = <<>>
       /\ rateLimit' = rateLimit
       /\ storage' = storage]_vars

\* an update was refused while the rate window and the storage hold data
C7_Witness ==
  /\ resp.op = "update_progress"
  /\ resp.kind = "text"
  /\ checking = <<>>
  /\ rateLimit # <<>>
  /\ storage.checking # <<>>

\* C8: get_progress leaves the rate window, the session and the storage
\* unchanged; it answers the empty object when there is no session and
\* otherwise the four counters with the number of results over the number
\* of items.
C8_GetProgress ==
  [][HandleGetProgress =>
       /\ UNCHANGED <<rateLimit, checking, storage>>
       /\ resp'.written = {}
       /\ resp'.kind = "json"
       /\ IF checking = <<>>
          THEN DOMAIN resp'.body = {}
          ELSE /\ resp'.body.progress
                    = <<Len(Session.results), Len(Session.cards)>>
               /\ resp'.body.live = Session.live
               /\ resp'.body.die = Session.die
               /\ resp'.body.unknown = Session.unknown
               /\ resp'.body.error = Session.error]_vars

\* a snapshot of a session that is part way through its items
C8_Witness ==
  /\ resp.op = "get_progress"
  /\ checking # <<>>
  /\ resp.body.progress = <<1, 2>>

-----------------------------------------------------------------------------
(* Properties of the two rate limiters *)

\* C2 (as claimed): in every state the window of the durable object and the
\* list stored for each user in RATE_KV, pruned to the entries younger than
\* 60 s, hold at most 3 timestamps.
C2_Claim ==
  /\ Len(Young(rateLimit, clock)) <= 3
  /\ \A u \in Users : Len(Young(kv[u], clock)) <= 3

\* the number of commands let through with a timestamp in [t, t + 60 s)
PassedFrom(log, t) ==
  Cardinality({i \in 1..Len(log) : log[i] - t >= 0 /\ log[i] - t < 60000})

\* C3 (as claimed): whatever the interleaving of the requests of one user,
\* at most 3 rate-limited commands are let through with timestamps inside
\* one span of 60 s.
C3_Claim ==
  \A u \in Users :
    \A i \in 1..Len(passed[u]) : PassedFrom(passed[u], passed[u][i]) <= 3

-----------------------------------------------------------------------------
(* Properties of the verification batch *)

\* the gateway call failed: fetch threw, the status is not a success, or
\* the body is not JSON
Failed(reply) ==
  \/ ~reply.net
  \/ reply.status \notin 200..299
  \/ reply.json = "invalid"

\* C9: whatever the gateway answers for each item, the /chk loop sends
\* every item to checkCard exactly once and in list order, records a failed
\* call as an error, and stops only after the last item, with the four
\* counters summing to the number of items.
C9_Batch ==
  chk.pc # "idle" =>
    /\ Len(calls) = chk.i
    /\ Len(chk.results) = chk.i
    /\ \A k \in 1..chk.i :
         /\ calls[k].card = chk.lines[k]
         /\ chk.results[k].card = chk.lines[k]
         /\ Failed(calls[k].reply) => chk.results[k].statusText = "Error"
    /\ chk.live + chk.die + chk.unknown + chk.error = chk.i
    /\ Cardinality({k \in 1..chk.i : chk.results[k].statusText = "Error"})
         = chk.error
    /\ (chk.pc = "done" => chk.i = Len(chk.lines))

\* a batch of three whose first call failed ran to its end
C9_Witness ==
  /\ chk.pc = "done"
  /\ Len(chk.lines) = 3
  /\ Failed(calls[1].reply)
  /\ chk.error = 1
  /\ chk.live >= 1

LiveMarkers == {"live", "approved", "success"}
DieMarkers == {"die", "declined", "failed"}
UnknownMarkers == {"unknown", "pending"}

\* the text holds one of the markers, in any case
Mentions(text, markers) ==
  \E m \in markers : \E k \in 1..Len(text) :
    /\ k + Len(m) - 1 <= Len(text)
    /\ ToLowerCase(SubSeq(text, k, k + Len(m) - 1)) = m

\* the gateway answered with a success status and a body that has a text
Success(reply) ==
  /\ reply.net
  /\ reply.status \in 200..299
  /\ reply.json \in {"object", "scalar"}
  /\ HtmlOf(reply).type = "string"

ReplyText == HtmlOf(probe.reply).text

\* C10 (as claimed): a successful response with a live marker is live, one
\* with a die marker is die, one with a pending/unknown marker is unknown,
\* and a response with no marker, a non-success status or a malformed body
\* is error, for every combination of markers.
C10_Claim ==
  (verdict # <<>> /\ WellFormed(probe.card)) =>
    LET ok == Success(probe.reply) IN
    /\ (ok /\ Mentions(ReplyText, LiveMarkers)) => verdict[1].status = "live"
    /\ (ok /\ Mentions(ReplyText, DieMarkers)) => verdict[1].status = "die"
    /\ (ok /\ Mentions(ReplyText, UnknownMarkers))
         => verdict[1].status = "unknown"
    /\ (~ok \/ ~Mentions(ReplyText,
                         LiveMarkers \cup DieMarkers \cup UnknownMarkers))
         => verdict[1].status = "error"

\* C10 (amended): the markers are tested in the order live, die,
\* pending/unknown.  A successful response with a live marker is live; with
\* a die marker and no live marker, die; with a pending/unknown marker and
\* neither of the others, unknown; a response with no marker, a non-success
\* status or a malformed body is error.
C10_Precedence ==
  (verdict # <<>> /\ WellFormed(probe.card)) =>
    verdict[1].status =
      IF ~Success(probe.reply) THEN "error"
      ELSE IF Mentions(ReplyText, LiveMarkers) THEN "live"
      ELSE IF Mentions(ReplyText, DieMarkers) THEN "die"
      ELSE IF Mentions(ReplyText, UnknownMarkers) THEN "unknown"
      ELSE "error"

\* a response with a die marker and a pending marker was classified
C10_Witness ==
  /\ verdict # <<>>
  /\ WellFormed(probe.card)
  /\ Success(probe.reply)
  /\ Mentions(ReplyText, DieMarkers)
  /\ Mentions(ReplyText, UnknownMarkers)
  /\ verdict[1].status = "die"

-----------------------------------------------------------------------------
(* Properties of the generator *)

\* the count asked for exceeds the cap
OverCap ==
  /\ Len(gen.args) >= 2
  /\ ~ParseInt(gen.args[2]).nan
  /\ ParseInt(gen.args[2]).value > GEN_CAP

\* C11 (as claimed): a /gen request whose count exceeds the cap is
\* rejected: no record is generated for it and no list of records is sent.
C11_Claim ==
  (gen.pc = "done" /\ OverCap) =>
    /\ gen.cards = <<>>
    /\ \A k \in 1..Len(sent) : sent[k].type # "generated"

\* the range table, written out
InRangeTable(n) ==
  \/ n \in 400000..499999
  \/ n \in 222100..272099
  \/ n \in 510000..559999
  \/ n \in 340000..349999
  \/ n \in 370000..379999
  \/ n \in 601100..601199
  \/ n \in 644000..659999
  \/ n \in 352800..358999
  \/ n \in 300000..305999
  \/ n \in 360000..369999
  \/ n \in 380000..399999
  \/ n \in 620000..629999

\* C12: a 6-digit prefix is accepted exactly when its value lies in one of
\* the ranges of the table, ends included; for a prefix in no range
\* generateCards returns no record, /gen generates none and the only
\* message sent is the rejection.
C12_Bins ==
  (gen.pc = "done" /\ Len(gen.args) >= 2 /\ Len(gen.bin) = 6) =>
    LET inRange == InRangeTable(Decimal(gen.bin)) IN
    /\ IsValidBin(gen.bin) <=> inRange
    /\ sent[1].type # "bin_not_in_range" <=> inRange
    /\ ~inRange =>
         /\ gen.cards = <<>>
         /\ Len(sent) = 1
         /\ \A rnd \in RandomSources, amount \in {1, 3} :
              GenerateCards(gen.bin, amount, rnd) = <<>>

\* the prefix 999999 was rejected
C12_Witness ==
  /\ gen.pc = "done"
  /\ gen.bin = "999999"
  /\ sent[1].type = "bin_not_in_range"

\* the j-th digit of s from the right, doubled when j is even
LuhnTerm(s, j) ==
  LET d == DigitValue(CharAt(s, Len(s) + 1 - j)) IN
  IF j % 2 = 1 THEN d
  ELSE IF 2 * d > 9 THEN 2 * d - 9 ELSE 2 * d

RECURSIVE LuhnTotal(_, _)
LuhnTotal(s, j) == IF j = 0 THEN 0 ELSE LuhnTerm(s, j) + LuhnTotal(s, j - 1)

\* the Luhn validator
LuhnValid(s) == LuhnTotal(s, Len(s)) % 10 = 0

\* C13: for a prefix of digits and a target length greater than the length
\* of the prefix, the number luhnGenerate returns has the target length,
\* starts with the prefix and passes the Luhn validator; the calls
\* generateCards makes are among them.
C13_Luhn ==
  (luhn.number # "" /\ luhn.length > Len(luhn.prefix)) =>
    /\ Len(luhn.number) = luhn.length
    /\ SubSeq(luhn.number, 1, Len(luhn.prefix)) = luhn.prefix
    /\ LuhnValid(luhn.number)

\* a call of generateCards has returned
C13_Witness ==
  /\ luhn.number # ""
  /\ luhn.length = CARD_LENGTH
  /\ Len(luhn.prefix) = CARD_LENGTH - 1

-----------------------------------------------------------------------------
(* Properties of the batch in time and of the rate limit across users *)

\* C14 (as claimed): every batch that entered its loop eventually sends
\* the completion message, a service that never answers being cut off by a
\* timeout.
C14_Claim ==
  (chk.pc = "loop") ~>
    (\E k \in 1..Len(sent) : sent[k].type = "completed")

\* the list of a user changes only by the put of a request of that user,
\* and the decision on a request reads the list of its own user only
KvIsolated ==
  [][/\ \A u \in Users :
          (kv'[u] # kv[u] \/ passed'[u] # passed[u]) =>
            \E r \in Reqs : /\ req[r].userId = u
                            /\ req[r].pc = "put"
                            /\ req'[r].pc = "passed"
     /\ \A r \in Reqs :
          (req[r].pc = "get" /\ req'[r].pc # "get") =>
            (req'[r].pc = "limited" <=>
               /\ Len(Young(kv[req[r].userId], req[r].now)) >= 3
               /\ req[r].cmd \notin Exempt)]_vars

\* C15 (as claimed): the answer to a rate_check of a user is the answer an
\* object serving that user alone gives, whatever checks of other users
\* come in between, and in the webhook handler the list of a user depends
\* on the requests of that user only.
C15_Claim ==
  /\ [](asked # <<>> => asked[1].allowed = asked[1].alone)
  /\ KvIsolated

\* C16: with three entries recorded and the first younger than 60 s the
\* check is rejected; a rejected check leaves the window as it was; a check
\* made 60 s or more after the oldest entry is allowed, and the window then
\* holds the entries younger than 60 s followed by now.
C16_Recovery ==
  [][HandleRateCheck =>
       /\ (Len(rateLimit) = 3 /\ clock - rateLimit[1] < 60000)
            => resp'.body = [allowed |-> FALSE]
       /\ resp'.body = [allowed |-> FALSE] => rateLimit' = rateLimit
       /\ (rateLimit # <<>> /\ clock - rateLimit[1] >= 60000) =>
            /\ resp'.body = [allowed |-> TRUE]
            /\ Len(rateLimit') <= 3
            /\ rateLimit'[Len(rateLimit')] = clock
            /\ \A k \in 1..Len(rateLimit') : clock - rateLimit'[k] < 60000
            /\ SubSeq(rateLimit', 1, Len(rateLimit') - 1)
                 = Young(rateLimit, clock)]_vars

\* the check at 60 s was allowed: the entry of time 0 is gone, the two
\* entries of 30 s are kept
C16_Witness ==
  /\ resp.op = "rate_check"
  /\ resp.body = [allowed |-> TRUE]
  /\ clock = 60000
  /\ rateLimit = <<30000, 30000, 60000>>

\* the progress messages sent so far
ProgressSent == SelectSeq(sent, LAMBDA m : m.type = "progress")

\* C17: in a batch of n items a progress message is sent after the i-th
\* item exactly when i is a multiple of 3 or i = n; the numerators grow
\* strictly, the four counters of a message sum to its numerator, the last
\* progress message shows n/n and the completion message comes right after
\* it and nowhere else.
C17_Progress ==
  LET n == Len(chk.lines)
      due == {j \in 1..chk.i : j % 3 = 0 \/ j = n}
      prog == ProgressSent IN
  (chk.pc \in {"loop", "done"} /\ n >= 1) =>
    /\ Len(prog) = Cardinality(due)
    /\ \A k \in 1..Len(prog) :
         /\ prog[k].progress[1] \in due
         /\ prog[k].progress[2] = n
         /\ prog[k].live + prog[k].die + prog[k].unknown + prog[k].error
              = prog[k].progress[1]
    /\ \A k \in 1..(Len(prog) - 1) :
         prog[k].progress[1] < prog[k + 1].progress[1]
    /\ \A k \in 1..Len(sent) :
         sent[k].type = "completed" =>
           /\ chk.pc = "done"
           /\ k = Len(sent)
           /\ sent[k - 1].type = "progress"
           /\ sent[k - 1].progress = <<n, n>>
    /\ chk.pc = "done" => sent[Len(sent)].type = "completed"

\* a batch of four has ended: progress after the third and the fourth item
C17_Witness ==
  /\ chk.pc = "done"
  /\ Len(chk.lines) = 4
  /\ Len(ProgressSent) = 2
  /\ ProgressSent[1].progress = <<3, 4>>

-----------------------------------------------------------------------------
(* Properties of the session of the durable object *)

\* C18: a start_check leaves one session whose four counters are 0 and
\* whose results are empty, whatever session was there before, and stores
\* it; a get_progress that follows at once reports 0 over the number of
\* items of the new session, with the four counters 0.
C18_Fresh ==
  [][/\ HandleStartCheck =>
          /\ Len(checking') = 1
          /\ checking'[1].results = <<>>
          /\ \A k \in {"live", "die", "unknown", "error"} :
               checking'[1][k] = 0
          /\ checking'[1].cards \in CardLists
          /\ storage'.checking = checking'
     /\ (resp.op = "start_check" /\ HandleGetProgress) =>
          /\ checking # <<>>
          /\ resp'.body = [progress |-> <<0, Len(Session.cards)>>,
                           live |-> 0, die |-> 0, unknown |-> 0,
                           error |-> 0]]_vars

\* a session of one item has just been started and stored, and
\* get_progress was asked at once: it reports 0/1
C18_Witness ==
  /\ resp.op = "get_progress"
  /\ checking # <<>>
  /\ Session.results = <<>>
  /\ Len(Session.cards) = 1
  /\ resp.body.progress = <<0, 1>>
  /\ storage.checking = checking

\* C19 (as claimed): with an active session the results are never more
\* than the items, and the count an update_progress returned is the number
\* of results.
C19_Claim ==
  checking # <<>> =>
    /\ Len(Session.results) <= Len(Session.cards)
    /\ (resp.op = "update_progress" /\ resp.kind = "json")
         => resp.body.progress[1] = Len(Session.results)

\* C19 (amended): an update_progress whose index is the number of results
\* recorded so far, on a session with fewer results than items, leaves no
\* more results than items and returns as checked count the number of
\* results, which is the count a get_progress that follows at once reports.
C19_InOrder ==
  [][/\ ( /\ HandleUpdateProgress
          /\ checking # <<>>
          /\ Len(Session.results) < Len(Session.cards)
          /\ resp'.body.progress[1] = Len(Session.results) + 1 ) =>
          /\ Len(checking'[1].results) <= Len(checking'[1].cards)
          /\ resp'.body.progress[1] = Len(checking'[1].results)
     /\ ( /\ resp.op = "update_progress"
          /\ resp.kind = "json"
          /\ checking # <<>>
          /\ resp.body.progress[1] = Len(Session.results)
          /\ HandleGetProgress ) =>
          resp'.body.progress = resp.body.progress]_vars

\* the second item of a session of two was reported with index 1 and
\* get_progress was asked at once
C19_Witness ==
  /\ resp.op = "get_progress"
  /\ checking # <<>>
  /\ Len(Session.cards) = 2
  /\ Len(Session.results) = 2
  /\ resp.body.progress = <<2, 2>>

\* C20: rate_check leaves the session and its stored copy unchanged;
\* start_check, update_progress and get_progress leave the rate window and
\* its stored copy unchanged.
C20_Frame ==
  [][/\ HandleRateCheck =>
          /\ checking' = checking
          /\ storage'.checking = storage.checking
     /\ (HandleStartCheck \/ HandleUpdateProgress \/ HandleGetProgress) =>
          /\ rateLimit' = rateLimit
          /\ storage'.rateLimit = storage.rateLimit]_vars

\* a session was started while the window held two entries: the window and
\* its stored copy are still there
C20_Witness ==
  /\ resp.op = "start_check"
  /\ rateLimit # <<>>
  /\ storage.rateLimit = <<rateLimit>>
  /\ checking # <<>>
  /\ Len(storage.rateLimit[1]) = 2

-----------------------------------------------------------------------------
(* Properties of the records of one prefix *)

\* the card number of a record
NumberOf(card) == SubSeq(card, 1, CARD_LENGTH)

\* the expiry and the code of a record
RestOf(card) == SubSeq(card, CARD_LENGTH + 1, Len(card))

\* C21: every record generateCards returns for a valid 6-digit prefix
\* carries one and the same 16-digit number, within the call and in any
\* other call for that prefix, whatever Math.random() yields: the prefix,
\* nine zeros and the check digit.  Only the expiry and the code differ.
C21_SameNumber ==
  (gen.pc = "done" /\ gen.cards # <<>>) =>
    /\ \A i, j \in 1..Len(gen.cards) :
         NumberOf(gen.cards[i]) = NumberOf(gen.cards[j])
    /\ \A rnd \in RandomSources, amount \in 1..2 :
         \A j \in 1..amount :
           NumberOf(GenerateCards(gen.bin, amount, rnd)[j])
             = NumberOf(gen.cards[1])
    /\ \A i \in 1..Len(gen.cards) :
         /\ CharAt(gen.cards[i], CARD_LENGTH + 1) = "|"
         /\ SubSeq(gen.cards[i], 1, CARD_LENGTH - 1)
              = gen.bin \o "000000000"
         /\ LuhnValid(NumberOf(gen.cards[i]))

\* three records for 515462 whose expiry and code differ and whose number
\* is the same
C21_Witness ==
  /\ gen.pc = "done"
  /\ gen.bin = "515462"
  /\ Len(gen.cards) = 3
  /\ RestOf(gen.cards[1]) # RestOf(gen.cards[2])
  /\ NumberOf(gen.cards[1]) = NumberOf(gen.cards[2])

====
